---- MODULE Spec2Model ----
(***************************************************************************)
(* Local Food Wastage Management: the entity mutation layer of app.py      *)
(* (the CRUD tab) together with the memoized reads of load_table, over a   *)
(* relational store with the four tables providers, receivers,             *)
(* food_listings and claims.                                               *)
(*                                                                         *)
(* One step of the model is one interaction: a rerun of the script with    *)
(* one CRUD form submitted.  A table is a function from primary keys to    *)
(* rows.  Text fields are sequences of characters, so that str.strip() is  *)
(* computed and not assumed.                                               *)
(***************************************************************************)
EXTENDS Integers, Sequences, FiniteSets, TLC

\* Largest primary key the model lets a table hold.
MaxId == 2

\* Number of interactions in one run of the model.
MaxSteps == 3

Ids == 1..MaxId

\* ------------------------------------------------------------------------
\* Text: str.strip()
\* ------------------------------------------------------------------------
SP == " "

RECURSIVE LStrip(_)
LStrip(s) == IF s # <<>> /\ Head(s) = SP THEN LStrip(Tail(s)) ELSE s

RECURSIVE RStrip(_)
RStrip(s) ==
    IF s # <<>> /\ s[Len(s)] = SP THEN RStrip(SubSeq(s, 1, Len(s) - 1)) ELSE s

Strip(s) == RStrip(LStrip(s))

\* `not x.strip()`
Blank(s) == Strip(s) = <<>>

\* ------------------------------------------------------------------------
\* Tables
\* ------------------------------------------------------------------------
Keys(t) == DOMAIN t

EmptyTable == [i \in {} |-> 0]

RECURSIVE MaxOf(_)
MaxOf(S) ==
    IF S = {} THEN 0
    ELSE LET x == CHOOSE y \in S : TRUE
             m == MaxOf(S \ {x})
         IN IF x > m THEN x ELSE m

\* SELECT COALESCE(MAX(id),0)+1 AS next_id FROM table
NextIdQuery(t) == MaxOf(Keys(t)) + 1

Without(t, gone) == [i \in Keys(t) \ gone |-> t[i]]

With(t, k, row) == [i \in Keys(t) \cup {k} |-> IF i = k THEN row ELSE t[i]]

\* ------------------------------------------------------------------------
\* State
\* ------------------------------------------------------------------------
VARIABLES
    providers,      \* store: Provider_ID -> row
    receivers,      \* store: Receiver_ID -> row
    food_listings,  \* store: Food_ID -> row
    claims,         \* store: Claim_ID -> row
    food_auto,      \* store: the next Food_ID the store assigns
    fk_policy,      \* store: ON DELETE policy of the foreign keys
    providers_df,   \* load_table cache: Provider_ID column of the snapshot
    receivers_df,   \* load_table cache: Receiver_ID column of the snapshot
    food_df,        \* load_table cache: Food_ID column of the snapshot
    claims_df,      \* load_table cache: Claim_ID column of the snapshot
    next_id_cache,  \* load_table cache: the three next_id queries, 0 = no entry
    db_error,       \* the exception the store raised in the last interaction, "" = none
    result,         \* the banner of the last interaction
    steps,          \* interactions so far
    report,         \* the last call into the query layer and what it returned
    conn_log,       \* what the last operation did with database connections
    sessions        \* concurrent sessions: how far each is in its create

store == <<providers, receivers, food_listings, claims, food_auto, fk_policy>>
cache == <<providers_df, receivers_df, food_df, claims_df, next_id_cache>>
vars == <<providers, receivers, food_listings, claims, food_auto, fk_policy,
          providers_df, receivers_df, food_df, claims_df, next_id_cache,
          db_error, result, steps, report, conn_log, sessions>>

\* The tables of the store as one value.
Tables ==
    [providers |-> providers, receivers |-> receivers,
     food_listings |-> food_listings, claims |-> claims, food_auto |-> food_auto]

\* ------------------------------------------------------------------------
\* The store: one statement, executed on the open connection.  A statement
\* returns the exception it raises (err, "" = none), the tables as it leaves
\* them and the number of rows of its target table it affected.
\* ------------------------------------------------------------------------
DupEntry == "Duplicate entry for key PRIMARY"
FkFails == "a foreign key constraint fails"
StoreErrors == {DupEntry, FkFails}

Raised(e) == [err |-> e, tables |-> Tables, rows |-> 0]
Done(t, n) == [err |-> "", tables |-> t, rows |-> n]

\* Rows of child table t whose column col references one of the keys.
Referencing(t, col, keys) == {i \in Keys(t) : t[i][col] \in keys}

\* A mutant of FkParentsExist: the store checks no foreign key on insert.
FkParentsUnchecked(row, col, parent) == TRUE

\* The foreign key of a child row names a row of the parent table.
FkParentsExist(row, col, parent) == row[col] \in Keys(parent)

\* DELETE of one row of a parent table (providers, receivers, food_listings)
\* under the foreign keys' ON DELETE policy: RESTRICT raises while a child
\* row references it, CASCADE deletes the children (and theirs) with it.
DeleteParent(tname, id) ==
    LET gone == IF id \in Keys(Tables[tname]) THEN {id} ELSE {}
        foods == IF tname = "providers"
                 THEN Referencing(food_listings, "Provider_ID", gone)
                 ELSE IF tname = "food_listings" THEN gone ELSE {}
        cls == IF tname = "receivers"
               THEN Referencing(claims, "Receiver_ID", gone)
               ELSE Referencing(claims, "Food_ID", foods)
        children == IF tname = "providers" THEN foods ELSE cls
    IN IF children # {} /\ fk_policy = "RESTRICT"
       THEN Raised(FkFails)
       ELSE Done([providers |-> IF tname = "providers"
                                THEN Without(providers, gone) ELSE providers,
                  receivers |-> IF tname = "receivers"
                                THEN Without(receivers, gone) ELSE receivers,
                  food_listings |-> Without(food_listings, foods),
                  claims |-> Without(claims, cls),
                  food_auto |-> food_auto],
                 Cardinality(gone))

\* A mutant of InsertKeyed: the store has no primary key constraint, the
\* row replaces the one under the key.
InsertOverwriting(tname, id, row) ==
    Done([Tables EXCEPT ![tname] = With(Tables[tname], id, row)], 1)

\* INSERT INTO providers / receivers with an explicit primary key.
InsertKeyed(tname, id, row) ==
    IF id \in Keys(Tables[tname])
    THEN Raised(DupEntry)
    ELSE Done([Tables EXCEPT ![tname] = With(Tables[tname], id, row)], 1)

\* INSERT INTO claims with an explicit primary key and two foreign keys.
InsertClaim(id, row) ==
    IF id \in Keys(claims)
    THEN Raised(DupEntry)
    ELSE IF ~(FkParentsExist(row, "Food_ID", food_listings)
              /\ FkParentsExist(row, "Receiver_ID", receivers))
    THEN Raised(FkFails)
    ELSE Done([Tables EXCEPT !.claims = With(claims, id, row)], 1)

\* INSERT INTO food_listings without Food_ID: the store assigns the key.
InsertFood(row) ==
    IF ~FkParentsExist(row, "Provider_ID", providers)
    THEN Raised(FkFails)
    ELSE Done([Tables EXCEPT !.food_listings = With(food_listings, food_auto, row),
                             !.food_auto = food_auto + 1], 1)

\* A mutant of UpdateRow: UPDATE t SET fields, without the WHERE clause.
UpdateEveryRow(tname, id, fields) ==
    Done([Tables EXCEPT ![tname] =
             [i \in Keys(Tables[tname]) |->
                 [c \in DOMAIN Tables[tname][i] |->
                     IF c \in DOMAIN fields THEN fields[c] ELSE Tables[tname][i][c]]]],
         Cardinality(Keys(Tables[tname])))

\* UPDATE t SET fields WHERE key = id; fields is a record of the new values.
UpdateRow(tname, id, fields) ==
    IF id \in Keys(Tables[tname])
    THEN Done([Tables EXCEPT ![tname] =
                  With(Tables[tname], id,
                       [c \in DOMAIN Tables[tname][id] |->
                           IF c \in DOMAIN fields THEN fields[c]
                           ELSE Tables[tname][id][c]])], 1)
    ELSE Done(Tables, 0)

\* DELETE FROM claims WHERE Claim_ID = id
DeleteClaim(id) ==
    Done([Tables EXCEPT !.claims = Without(claims, {id})],
         IF id \in Keys(claims) THEN 1 ELSE 0)

\* ------------------------------------------------------------------------
\* load_table: st.cache_data memoizes on the SQL text, for the life of the
\* running application; no mutation clears it.
\* ------------------------------------------------------------------------
\* A mutant of LoadNextId: the query runs on every call.
LoadNextIdFresh(name, t) == NextIdQuery(t)

\* next_id = load_table("SELECT COALESCE(MAX(..),0)+1 AS next_id FROM ..")
LoadNextId(name, t) ==
    IF next_id_cache[name] # 0 THEN next_id_cache[name] ELSE NextIdQuery(t)

\* The cache after that call.
Memoized(name, t) == [next_id_cache EXCEPT ![name] = LoadNextId(name, t)]

\* ------------------------------------------------------------------------
\* Banners
\* ------------------------------------------------------------------------
InvalidProvider == "Invalid Provider ID (must exist in providers)."
InvalidFood == "Invalid Food_ID (must exist in Food Listings)."
InvalidReceiver == "Invalid Receiver_ID (must exist in Receivers)."
EmptyFoodFields == "Food Name and Location cannot be empty."
EmptyNameCity == "Name and City cannot be empty."

\* st.error of a client-side check: nothing was executed.
Rejected(op, arg, text) ==
    [op |-> op, kind |-> "validation", msg |-> text, stmts |-> 0, rows |-> 0,
     id |-> 0, arg |-> arg]

\* st.success / st.warning after conn.commit()
Succeeded(op, arg, id, r) ==
    [op |-> op, kind |-> "success", msg |-> "", stmts |-> 1, rows |-> r.rows,
     id |-> id, arg |-> arg]

\* A mutant of Failed: the handler shows a text of its own.
FailedGeneric(op, arg, id, r) ==
    [op |-> op, kind |-> "store_error", msg |-> "Something went wrong", stmts |-> 1,
     rows |-> 0, id |-> id, arg |-> arg]

\* except Exception as e: conn.rollback(); st.error(f"Error: {e}")
Failed(op, arg, id, r) ==
    [op |-> op, kind |-> "store_error", msg |-> r.err, stmts |-> 1, rows |-> 0,
     id |-> id, arg |-> arg]

\* One interaction of the one user, counted against the bound of the run.
Tick == steps < MaxSteps /\ steps' = steps + 1 /\ UNCHANGED sessions

\* ------------------------------------------------------------------------
\* Connections.  What an operation does with connections, in order:
\* "open" (get_connection), "read" (pd.read_sql), "execute", "commit",
\* "rollback", "close".
\* ------------------------------------------------------------------------
\* load_table on a cache miss: its own connection, one read, closed in finally.
load_table_conn == <<"open", "read", "close">>

\* A mutant of crud_conn: the connection is closed on the success path only.
crud_conn_no_finally(loaded, issued, raised) ==
    <<"open">>
    \o (IF loaded THEN load_table_conn ELSE <<>>)
    \o (IF issued
        THEN <<"execute">> \o (IF raised THEN <<"rollback">> ELSE <<"commit", "close">>)
        ELSE <<"close">>)

\* The CRUD tab: conn = get_connection() before the try, the handler inside
\* it (a next_id read through load_table when it is not memoized, then the
\* statement with its commit or rollback), conn.close() in the finally.
crud_conn(loaded, issued, raised) ==
    <<"open">>
    \o (IF loaded THEN load_table_conn ELSE <<>>)
    \o (IF issued
        THEN <<"execute">> \o (IF raised THEN <<"rollback">> ELSE <<"commit">>)
        ELSE <<>>)
    \o <<"close">>

Commit(t) ==
    /\ providers' = t.providers
    /\ receivers' = t.receivers
    /\ food_listings' = t.food_listings
    /\ claims' = t.claims
    /\ food_auto' = t.food_auto
    /\ UNCHANGED fk_policy

\* try: cur.execute(..); conn.commit(); st.success(..)
\* except Exception as e: conn.rollback(); st.error(..)
\* r is what the statement did on the connection, loaded whether the
\* handler read a next_id from the store before it.
Executed(op, arg, id, r, loaded) ==
    /\ db_error' = r.err
    /\ conn_log' = crud_conn(loaded, TRUE, r.err # "")
    /\ UNCHANGED report
    /\ IF r.err = ""
       THEN Commit(r.tables) /\ result' = Succeeded(op, arg, id, r)
       ELSE UNCHANGED store /\ result' = Failed(op, arg, id, r)

\* A submission of the one user: the whole handler is one step.
Mutation(op, arg, id, r) ==
    /\ Tick
    /\ Executed(op, arg, id, r, next_id_cache' # next_id_cache)

\* A client-side rejection: st.error and nothing else.
Reject(op, arg, text) ==
    /\ Tick
    /\ result' = Rejected(op, arg, text)
    /\ db_error' = ""
    /\ conn_log' = crud_conn(FALSE, FALSE, FALSE)
    /\ UNCHANGED report
    /\ UNCHANGED <<store, cache>>

\* ------------------------------------------------------------------------
\* Form inputs
\* ------------------------------------------------------------------------
ProviderForms ==
    { [Name |-> <<SP, "a">>, Type |-> "Restaurant", Address |-> <<"x", SP>>,
       City |-> <<"d", SP>>, Contact |-> <<SP, "c">>],
      [Name |-> <<SP, SP>>, Type |-> "Restaurant", Address |-> <<"x", SP>>,
       City |-> <<"d", SP>>, Contact |-> <<SP, "c">>],
      [Name |-> <<SP, "a">>, Type |-> "Restaurant", Address |-> <<"x", SP>>,
       City |-> <<>>, Contact |-> <<SP, "c">>] }

ReceiverForms ==
    { [Name |-> <<"r", SP>>, Type |-> "NGO", City |-> <<SP, "d">>, Contact |-> <<"c">>],
      [Name |-> <<>>, Type |-> "NGO", City |-> <<SP, "d">>, Contact |-> <<"c">>],
      [Name |-> <<"r", SP>>, Type |-> "NGO", City |-> <<SP>>, Contact |-> <<"c">>] }

FoodAddForms ==
    { [Food_Name |-> n, Quantity |-> 1, Expiry_Date |-> 1, Provider_ID |-> p,
       Provider_Type |-> "Restaurant", Location |-> l, Food_Type |-> "Vegan",
       Meal_Type |-> "Lunch"] :
         p \in Ids,
         n \in {<<SP, "f">>, <<SP>>},
         l \in {<<"d", SP>>, <<>>} }

FoodUpdateForms ==
    { [Quantity |-> 0, Expiry_Date |-> 2, Location |-> <<SP>>, Meal_Type |-> "Dinner"] }

ClaimAddForms ==
    { [Food_ID |-> f, Receiver_ID |-> r, Status |-> "Pending", Timestamp |-> 1] :
         f \in Ids, r \in Ids }

ClaimStatuses == {"Completed"}

\* ------------------------------------------------------------------------
\* Client-side checks
\* ------------------------------------------------------------------------
\* A mutant of ProviderIdKnown: the check asks the store, not the snapshot.
ProviderIdKnownLive(pid) == pid \in Keys(providers)

\* int(provider_id) in providers_df["Provider_ID"].values
ProviderIdKnown(pid) == pid \in providers_df

\* int(food_id) in food_df["Food_ID"].values
FoodIdKnown(fid) == fid \in food_df

\* A mutant of ReceiverIdKnown: the receiver check is missing.
ReceiverIdUnchecked(rid) == TRUE

\* int(receiver_id) in receivers_df["Receiver_ID"].values
ReceiverIdKnown(rid) == rid \in receivers_df

\* A mutant of FoodFieldsEmpty: only the food name is checked.
FoodNameEmpty(f) == Blank(f.Food_Name)

\* not food_name.strip() or not location.strip()
FoodFieldsEmpty(f) == Blank(f.Food_Name) \/ Blank(f.Location)

\* not name.strip() or not city.strip()
NameOrCityEmpty(f) == Blank(f.Name) \/ Blank(f.City)

\* ------------------------------------------------------------------------
\* Food Listings
\* ------------------------------------------------------------------------
FoodAdd(f) ==
    IF ~ProviderIdKnown(f.Provider_ID)
    THEN Reject("FoodAdd", f.Provider_ID, InvalidProvider)
    ELSE IF FoodFieldsEmpty(f)
    THEN Reject("FoodAdd", f.Provider_ID, EmptyFoodFields)
    ELSE /\ food_auto <= MaxId
         /\ UNCHANGED cache
         /\ Mutation("FoodAdd", f.Provider_ID, food_auto,
                     InsertFood([f EXCEPT !.Food_Name = Strip(f.Food_Name),
                                          !.Location = Strip(f.Location)]))

FoodUpdate(food_id, f) ==
    /\ UNCHANGED cache
    /\ Mutation("FoodUpdate", food_id, food_id,
                UpdateRow("food_listings", food_id,
                          [f EXCEPT !.Location = Strip(f.Location)]))

FoodDelete(food_id) ==
    /\ UNCHANGED cache
    /\ Mutation("FoodDelete", food_id, food_id, DeleteParent("food_listings", food_id))

\* ------------------------------------------------------------------------
\* Providers
\* ------------------------------------------------------------------------
ProviderRow(f) ==
    [Name |-> Strip(f.Name), Type |-> f.Type, Address |-> Strip(f.Address),
     City |-> Strip(f.City), Contact |-> Strip(f.Contact)]

ProvidersAdd(f) ==
    IF NameOrCityEmpty(f)
    THEN Reject("ProvidersAdd", 0, EmptyNameCity)
    ELSE LET next_id == LoadNextId("providers", providers)
         IN /\ next_id <= MaxId
            /\ next_id_cache' = Memoized("providers", providers)
            /\ UNCHANGED <<providers_df, receivers_df, food_df, claims_df>>
            /\ Mutation("ProvidersAdd", 0, next_id,
                        InsertKeyed("providers", next_id, ProviderRow(f)))

ProvidersUpdate(pid, f) ==
    /\ UNCHANGED cache
    /\ Mutation("ProvidersUpdate", pid, pid, UpdateRow("providers", pid, ProviderRow(f)))

ProvidersDelete(pid) ==
    /\ UNCHANGED cache
    /\ Mutation("ProvidersDelete", pid, pid, DeleteParent("providers", pid))

\* ------------------------------------------------------------------------
\* Receivers
\* ------------------------------------------------------------------------
ReceiverRow(f) ==
    [Name |-> Strip(f.Name), Type |-> f.Type, City |-> Strip(f.City),
     Contact |-> Strip(f.Contact)]

ReceiversAdd(f) ==
    IF NameOrCityEmpty(f)
    THEN Reject("ReceiversAdd", 0, EmptyNameCity)
    ELSE LET next_id == LoadNextId("receivers", receivers)
         IN /\ next_id <= MaxId
            /\ next_id_cache' = Memoized("receivers", receivers)
            /\ UNCHANGED <<providers_df, receivers_df, food_df, claims_df>>
            /\ Mutation("ReceiversAdd", 0, next_id,
                        InsertKeyed("receivers", next_id, ReceiverRow(f)))

ReceiversUpdate(rid, f) ==
    /\ UNCHANGED cache
    /\ Mutation("ReceiversUpdate", rid, rid, UpdateRow("receivers", rid, ReceiverRow(f)))

ReceiversDelete(rid) ==
    /\ UNCHANGED cache
    /\ Mutation("ReceiversDelete", rid, rid, DeleteParent("receivers", rid))

\* ------------------------------------------------------------------------
\* Claims
\* ------------------------------------------------------------------------
ClaimsAdd(f) ==
    IF ~FoodIdKnown(f.Food_ID)
    THEN Reject("ClaimsAdd", f.Food_ID, InvalidFood)
    ELSE IF ~ReceiverIdKnown(f.Receiver_ID)
    THEN Reject("ClaimsAdd", f.Food_ID, InvalidReceiver)
    ELSE LET next_id == LoadNextId("claims", claims)
         IN /\ next_id <= MaxId
            /\ next_id_cache' = Memoized("claims", claims)
            /\ UNCHANGED <<providers_df, receivers_df, food_df, claims_df>>
            /\ Mutation("ClaimsAdd", f.Food_ID, next_id, InsertClaim(next_id, f))

ClaimsUpdate(cid, new_status) ==
    /\ UNCHANGED cache
    /\ Mutation("ClaimsUpdate", cid, cid,
                UpdateRow("claims", cid, [Status |-> new_status]))

\* A mutant of ClaimsDelete: a delete that matches no row is reported as an error.
ClaimsDeleteStrict(cid) ==
    /\ UNCHANGED cache
    /\ IF cid \in Keys(claims)
       THEN Mutation("ClaimsDelete", cid, cid, DeleteClaim(cid))
       ELSE /\ Tick
            /\ result' = Rejected("ClaimsDelete", cid, "No such claim")
            /\ db_error' = ""
            /\ conn_log' = crud_conn(FALSE, FALSE, FALSE)
            /\ UNCHANGED report
            /\ UNCHANGED store

ClaimsDelete(cid) ==
    /\ UNCHANGED cache
    /\ Mutation("ClaimsDelete", cid, cid, DeleteClaim(cid))

\* ------------------------------------------------------------------------
\* The application (re)starts: the cache of load_table is empty, and the
\* first run of the script loads the four snapshots.
\* ------------------------------------------------------------------------
NoBanner(op) ==
    [op |-> op, kind |-> "none", msg |-> "", stmts |-> 0, rows |-> 0, id |-> 0,
     arg |-> 0]

\* No call into the query layer has been made yet.
NoReport == [fn |-> "none", raised |-> FALSE]

LoadSnapshots ==
    /\ providers_df' = Keys(providers')
    /\ receivers_df' = Keys(receivers')
    /\ food_df' = Keys(food_listings')
    /\ claims_df' = Keys(claims')
    /\ next_id_cache' = [providers |-> 0, receivers |-> 0, claims |-> 0]

Restart ==
    /\ Tick
    /\ UNCHANGED store
    /\ LoadSnapshots
    /\ db_error' = ""
    /\ result' = NoBanner("Restart")
    /\ conn_log' = load_table_conn \o load_table_conn \o load_table_conn
                    \o load_table_conn \o crud_conn(FALSE, FALSE, FALSE)
    /\ UNCHANGED report

\* ------------------------------------------------------------------------
\* Initial states: an empty database, or one row in every table.
\* ------------------------------------------------------------------------
SeedProvider ==
    [Name |-> <<"b">>, Type |-> "Grocery Store", Address |-> <<"y">>,
     City |-> <<"m">>, Contact |-> <<"c">>]
SeedReceiver ==
    [Name |-> <<"s">>, Type |-> "Shelter", City |-> <<"m">>, Contact |-> <<"c">>]
SeedFood ==
    [Food_Name |-> <<"g">>, Quantity |-> 5, Expiry_Date |-> 1, Provider_ID |-> 1,
     Provider_Type |-> "Grocery Store", Location |-> <<"m">>,
     Food_Type |-> "Vegetarian", Meal_Type |-> "Breakfast"]
SeedClaim ==
    [Food_ID |-> 1, Receiver_ID |-> 1, Status |-> "Pending", Timestamp |-> 1]

\* No concurrent session has submitted anything.
MaxSessions == 2
Sessions == 1..MaxSessions
NoSessions == [s \in Sessions |-> [pc |-> "idle", entity |-> "", next_id |-> 0,
                                   loaded |-> FALSE]]

Init ==
    /\ \/ /\ providers = EmptyTable /\ receivers = EmptyTable
          /\ food_listings = EmptyTable /\ claims = EmptyTable
          /\ food_auto = 1
       \/ /\ providers = With(EmptyTable, 1, SeedProvider)
          /\ receivers = With(EmptyTable, 1, SeedReceiver)
          /\ food_listings = With(EmptyTable, 1, SeedFood)
          /\ claims = With(EmptyTable, 1, SeedClaim)
          /\ food_auto = 2
    /\ fk_policy \in {"RESTRICT", "CASCADE"}
    /\ providers_df = Keys(providers)
    /\ receivers_df = Keys(receivers)
    /\ food_df = Keys(food_listings)
    /\ claims_df = Keys(claims)
    /\ next_id_cache = [providers |-> 0, receivers |-> 0, claims |-> 0]
    /\ db_error = ""
    /\ result = NoBanner("Start")
    /\ steps = 0
    /\ report = NoReport
    /\ conn_log = <<>>
    /\ sessions = NoSessions

Next ==
    \/ \E f \in FoodAddForms : FoodAdd(f)
    \/ \E i \in Ids, f \in FoodUpdateForms : FoodUpdate(i, f)
    \/ \E i \in Ids : FoodDelete(i)
    \/ \E f \in ProviderForms : ProvidersAdd(f)
    \/ \E i \in Ids, f \in ProviderForms : ProvidersUpdate(i, f)
    \/ \E i \in Ids : ProvidersDelete(i)
    \/ \E f \in ReceiverForms : ReceiversAdd(f)
    \/ \E i \in Ids, f \in ReceiverForms : ReceiversUpdate(i, f)
    \/ \E i \in Ids : ReceiversDelete(i)
    \/ \E f \in ClaimAddForms : ClaimsAdd(f)
    \/ \E i \in Ids, st \in ClaimStatuses : ClaimsUpdate(i, st)
    \/ \E i \in Ids : ClaimsDelete(i)
    \/ Restart

Spec == Init /\ [][Next]_vars

\* ========================================================================
\* Claims
\* ========================================================================
StoreUnchanged == UNCHANGED store

\* C1: for Provider, Receiver and Claim, a create that passes validation and
\* directly follows a successful create of the same entity succeeds too, with
\* an id that is not in the table and is greater than every id in it.
C1_SequentialCreatesNeverCollide ==
    [][ /\ \A f \in ProviderForms :
              (result.op = "ProvidersAdd" /\ result.kind = "success"
                 /\ ProvidersAdd(f) /\ result'.kind # "validation")
              => (result'.kind = "success"
                    /\ \A i \in Keys(providers) : result'.id > i)
        /\ \A f \in ReceiverForms :
              (result.op = "ReceiversAdd" /\ result.kind = "success"
                 /\ ReceiversAdd(f) /\ result'.kind # "validation")
              => (result'.kind = "success"
                    /\ \A i \in Keys(receivers) : result'.id > i)
        /\ \A f \in ClaimAddForms :
              (result.op = "ClaimsAdd" /\ result.kind = "success"
                 /\ ClaimsAdd(f) /\ result'.kind # "validation")
              => (result'.kind = "success"
                    /\ \A i \in Keys(claims) : result'.id > i) ]_vars

\* C2: the id a Provider, Receiver or Claim create puts in its INSERT is
\* max(ids in the table at that moment) + 1, and 1 for an empty table.
C2_IdIsMaxPlusOneAtInsert ==
    [][ /\ \A f \in ProviderForms :
              (ProvidersAdd(f) /\ result'.stmts = 1)
              => result'.id = MaxOf(Keys(providers)) + 1
        /\ \A f \in ReceiverForms :
              (ReceiversAdd(f) /\ result'.stmts = 1)
              => result'.id = MaxOf(Keys(receivers)) + 1
        /\ \A f \in ClaimAddForms :
              (ClaimsAdd(f) /\ result'.stmts = 1)
              => result'.id = MaxOf(Keys(claims)) + 1 ]_vars

\* A text that is empty once leading and trailing whitespace is removed.
AllSpaces(s) == \A i \in 1..Len(s) : s[i] = SP

\* C3, as stated: a Food-listing create is rejected with a validation error,
\* with no statement and the store unchanged, exactly when its Provider_ID is
\* not in the provider snapshot; with the Provider_ID in the snapshot the
\* INSERT is issued.
C3_RejectedExactlyWhenProviderUnknown ==
    [][ \A f \in FoodAddForms :
          FoodAdd(f) =>
            /\ (f.Provider_ID \notin providers_df) <=> (result'.kind = "validation")
            /\ f.Provider_ID \notin providers_df
                 => (result'.stmts = 0 /\ StoreUnchanged)
            /\ f.Provider_ID \in providers_df => result'.stmts = 1 ]_vars

\* C3, amended: the create is rejected with the invalid-Provider-ID error
\* exactly when its Provider_ID is not in the provider snapshot; with the
\* Provider_ID in the snapshot it is rejected with the empty-field error when
\* Food_Name or Location is empty after trimming, and the INSERT is issued
\* otherwise.  A rejection issues no statement and leaves the store unchanged.
C3_ProviderCheckThenFieldCheck ==
    [][ \A f \in FoodAddForms :
          FoodAdd(f) =>
            /\ (f.Provider_ID \notin providers_df) <=> (result'.msg = InvalidProvider)
            /\ (f.Provider_ID \in providers_df
                  /\ (AllSpaces(f.Food_Name) \/ AllSpaces(f.Location)))
                 <=> (result'.msg = EmptyFoodFields)
            /\ result'.msg \in {InvalidProvider, EmptyFoodFields}
                 => (result'.kind = "validation" /\ result'.stmts = 0
                       /\ StoreUnchanged)
            /\ result'.msg \notin {InvalidProvider, EmptyFoodFields}
                 => result'.stmts = 1 ]_vars

\* C3 witness: a Food-listing create was rejected for its Provider_ID.
C3_Witness ==
    /\ result.op = "FoodAdd"
    /\ result.msg = InvalidProvider
    /\ result.arg \notin providers_df

\* C4: a Claim create issues its INSERT only if Food_ID is in the food
\* snapshot and Receiver_ID is in the receiver snapshot; otherwise it ends in
\* a validation error, computes no id, issues no statement and leaves the
\* store unchanged.
C4_ClaimInsertOnlyIfBothKnown ==
    [][ \A f \in ClaimAddForms :
          ClaimsAdd(f) =>
            /\ result'.stmts = 1
                 => (f.Food_ID \in food_df /\ f.Receiver_ID \in receivers_df)
            /\ (f.Food_ID \notin food_df \/ f.Receiver_ID \notin receivers_df)
                 => /\ result'.kind = "validation"
                    /\ result'.stmts = 0
                    /\ result'.id = 0
                    /\ next_id_cache' = next_id_cache
                    /\ StoreUnchanged ]_vars

\* C4 witness: a Claim create with a known Food_ID was rejected for its
\* Receiver_ID.
C4_Witness ==
    /\ result.op = "ClaimsAdd"
    /\ result.msg = InvalidReceiver
    /\ result.arg \in food_df

\* C5: a Food-listing create that references a provider present in the store
\* but absent from the snapshot (created after the snapshot was taken) is
\* rejected by the existence check; one that references a provider present in
\* the snapshot but deleted from the store passes the check; a reload makes
\* the snapshot equal to the store's providers, and a create with non-empty
\* fields that references a provider in both is carried out.
C5_StaleProviderSnapshot ==
    [][ /\ \A f \in FoodAddForms :
              FoodAdd(f) =>
                /\ f.Provider_ID \in Keys(providers) \ providers_df
                     => (result'.msg = InvalidProvider /\ result'.stmts = 0)
                /\ f.Provider_ID \in providers_df \ Keys(providers)
                     => result'.msg # InvalidProvider
                /\ (f.Provider_ID \in providers_df \cap Keys(providers)
                      /\ ~AllSpaces(f.Food_Name) /\ ~AllSpaces(f.Location))
                     => result'.kind = "success"
        /\ Restart => providers_df' = Keys(providers) ]_vars

\* C5 witness: a create was rejected although the provider it references is
\* in the store.
C5_Witness ==
    /\ result.op = "FoodAdd"
    /\ result.msg = InvalidProvider
    /\ result.arg \in Keys(providers)

\* The outcome C6 asks of a statement that matches no row.
SilentSuccess ==
    /\ result'.kind = "success"
    /\ result'.stmts = 1
    /\ result'.rows = 0
    /\ db_error' = ""
    /\ StoreUnchanged

\* C6: for every entity, an update or delete whose id is not in the store
\* reports success, affects zero rows and leaves every table unchanged.
C6_MissingIdSucceedsSilently ==
    [][ /\ \A i \in Ids \ Keys(food_listings) :
              /\ \A f \in FoodUpdateForms : FoodUpdate(i, f) => SilentSuccess
              /\ FoodDelete(i) => SilentSuccess
        /\ \A i \in Ids \ Keys(providers) :
              /\ \A f \in ProviderForms : ProvidersUpdate(i, f) => SilentSuccess
              /\ ProvidersDelete(i) => SilentSuccess
        /\ \A i \in Ids \ Keys(receivers) :
              /\ \A f \in ReceiverForms : ReceiversUpdate(i, f) => SilentSuccess
              /\ ReceiversDelete(i) => SilentSuccess
        /\ \A i \in Ids \ Keys(claims) :
              /\ \A st \in ClaimStatuses : ClaimsUpdate(i, st) => SilentSuccess
              /\ ClaimsDelete(i) => SilentSuccess ]_vars

\* C6 witness: a Claim delete of an id that is not in the store reported
\* success with zero rows.
C6_Witness ==
    /\ result.op = "ClaimsDelete"
    /\ result.kind = "success"
    /\ result.rows = 0
    /\ result.arg \notin Keys(claims)

\* C7: no row of the store has an empty required field: Name and City of a
\* provider or receiver, Food_Name and Location of a food listing.
C7_NoEmptyRequiredField ==
    /\ \A i \in Keys(providers) :
          providers[i].Name # <<>> /\ providers[i].City # <<>>
    /\ \A i \in Keys(receivers) :
          receivers[i].Name # <<>> /\ receivers[i].City # <<>>
    /\ \A i \in Keys(food_listings) :
          food_listings[i].Food_Name # <<>> /\ food_listings[i].Location # <<>>

\* C8: when the store raises an error during a mutation, the store is as it
\* was before the mutation, the outcome is an error that carries the store's
\* error text, and the statement was executed once.
C8_StoreErrorRolledBackAndSurfaced ==
    [][ db_error' # ""
          => /\ StoreUnchanged
             /\ result'.kind = "store_error"
             /\ result'.msg = db_error'
             /\ result'.stmts = 1 ]_vars

\* C8 witness: a delete was refused by a foreign key and ended in an error.
C8_Witness ==
    /\ db_error = FkFails
    /\ result.kind = "store_error"
    /\ result.op \in {"ProvidersDelete", "ReceiversDelete", "FoodDelete"}

\* C9: a create that passes validation and references only rows of the store
\* succeeds when it is issued right after a failed create of the same entity.
C9_ValidCreateAfterFailedCreateSucceeds ==
    [][ /\ \A f \in ProviderForms :
              (result.op = "ProvidersAdd" /\ result.kind \in {"validation", "store_error"}
                 /\ ProvidersAdd(f) /\ ~AllSpaces(f.Name) /\ ~AllSpaces(f.City))
              => result'.kind = "success"
        /\ \A f \in ReceiverForms :
              (result.op = "ReceiversAdd" /\ result.kind \in {"validation", "store_error"}
                 /\ ReceiversAdd(f) /\ ~AllSpaces(f.Name) /\ ~AllSpaces(f.City))
              => result'.kind = "success"
        /\ \A f \in ClaimAddForms :
              (result.op = "ClaimsAdd" /\ result.kind \in {"validation", "store_error"}
                 /\ ClaimsAdd(f)
                 /\ f.Food_ID \in food_df \cap Keys(food_listings)
                 /\ f.Receiver_ID \in receivers_df \cap Keys(receivers))
              => result'.kind = "success"
        /\ \A f \in FoodAddForms :
              (result.op = "FoodAdd" /\ result.kind \in {"validation", "store_error"}
                 /\ FoodAdd(f) /\ ~AllSpaces(f.Food_Name) /\ ~AllSpaces(f.Location)
                 /\ f.Provider_ID \in providers_df \cap Keys(providers))
              => result'.kind = "success" ]_vars

\* C10: every claim references a food listing and a receiver of the store,
\* and every food listing references a provider of the store.
C10_ReferentialIntegrity ==
    /\ \A c \in Keys(claims) :
          /\ claims[c].Food_ID \in Keys(food_listings)
          /\ claims[c].Receiver_ID \in Keys(receivers)
    /\ \A f \in Keys(food_listings) :
          food_listings[f].Provider_ID \in Keys(providers)

\* C10 witness: a create passed the snapshot check with a reference to a row
\* deleted since, and the store refused it.
C10_Witness ==
    /\ result.op \in {"FoodAdd", "ClaimsAdd"}
    /\ db_error = FkFails
    /\ C10_ReferentialIntegrity

\* ========================================================================
\* The query layer (queries.py)
\* ========================================================================
\* A filter argument is None or a list of values.
None == [given |-> FALSE, vals |-> {}]
List(S) == [given |-> TRUE, vals |-> S]

\* Python's truth value of a filter argument: None and [] are both false.
Truthy(values) == values.given /\ values.vals # {}

\* SQL text is a sequence of tokens; "" is the empty sequence.  A bound
\* parameter %(name)s is the three tokens "%(", name, ")s".
\* A mutant of _in_clause: every dimension is bound under the same name.
_in_clause_one_name(col, values, name, params) ==
    IF Truthy(values)
    THEN [sql |-> <<col, "IN", "%(", "values", ")s">>,
          params |-> ("values" :> values.vals) @@ params]
    ELSE [sql |-> <<>>, params |-> params]

\* _in_clause updates the params dict and returns the snippet; here it
\* returns both.
_in_clause(col, values, name, params) ==
    IF Truthy(values)
    THEN [sql |-> <<col, "IN", "%(", name, ")s">>,
          params |-> (name :> values.vals) @@ params]
    ELSE [sql |-> <<>>, params |-> params]

RECURSIVE Joined(_, _)
\* sep.join(conds)
Joined(conds, sep) ==
    IF Len(conds) = 1 THEN Head(conds)
    ELSE Head(conds) \o <<sep>> \o Joined(Tail(conds), sep)

\* A mutant of _and_join: the conditions are joined with OR.
_and_join_or(conditions) ==
    LET conds == SelectSeq(conditions, LAMBDA c : c # <<>>)
    IN  IF conds = <<>> THEN <<>> ELSE <<"WHERE">> \o Joined(conds, "OR")

_and_join(conditions) ==
    LET conds == SelectSeq(conditions, LAMBDA c : c # <<>>)
    IN  IF conds = <<>> THEN <<>> ELSE <<"WHERE">> \o Joined(conds, "AND")

\* ------------------------------------------------------------------------
\* What the store does with a SELECT
\* ------------------------------------------------------------------------
\* A value of a result column: SQL NULL, or a value.
Null == [null |-> TRUE, v |-> 0]
Val(n) == [null |-> FALSE, v |-> n]
Coalesce(x, d) == IF x.null THEN Val(d) ELSE x

\* The columns of a table row under an alias ("r." or ""), the key included.
Qualified(alias, row) ==
    [n \in {alias \o k : k \in DOMAIN row} |->
        row[CHOOSE k \in DOMAIN row : alias \o k = n]]

TableRows(tname, alias) ==
    CASE tname = "providers" ->
           {Qualified(alias, ("Provider_ID" :> i) @@ providers[i]) : i \in Keys(providers)}
      [] tname = "receivers" ->
           {Qualified(alias, ("Receiver_ID" :> i) @@ receivers[i]) : i \in Keys(receivers)}
      [] tname = "food_listings" ->
           {Qualified(alias, ("Food_ID" :> i) @@ food_listings[i]) : i \in Keys(food_listings)}
      [] tname = "claims" ->
           {Qualified(alias, ("Claim_ID" :> i) @@ claims[i]) : i \in Keys(claims)}

RECURSIVE FromRows(_)
\* FROM t1 a1 JOIN t2 a2 ON x = y JOIN ..: the inner joins, left to right.
FromRows(from) ==
    IF Len(from) = 1 THEN TableRows(from[1].t, from[1].as)
    ELSE LET last == from[Len(from)]
             left == FromRows(SubSeq(from, 1, Len(from) - 1))
             both == {a @@ b : a \in left, b \in TableRows(last.t, last.as)}
         IN  {r \in both : r[last.on[1]] = r[last.on[2]]}

\* The conditions of a WHERE clause: five tokens each, "AND" between them.
Conditions(where) ==
    {SubSeq(where, 6 * k - 4, 6 * k) : k \in 1..(Len(where) \div 6)}

\* col IN %(name)s, or col = 'literal'
Holds(c, params, r) ==
    IF c[2] = "IN" THEN r[c[1]] \in params[c[4]] ELSE r[c[1]] = c[4]

\* The connective of a WHERE clause, as the text spells it.
Satisfies(where, params, r) ==
    IF \E i \in 1..Len(where) : where[i] = "OR"
    THEN \E c \in Conditions(where) : Holds(c, params, r)
    ELSE \A c \in Conditions(where) : Holds(c, params, r)

RECURSIVE SumOf(_, _)
SumOf(col, R) ==
    IF R = {} THEN 0
    ELSE LET r == CHOOSE x \in R : TRUE IN r[col] + SumOf(col, R \ {r})

\* COUNT is 0 over no rows; SUM and AVG are NULL over no rows.  An average
\* is kept as the pair <<sum, count>>.
Aggregate(agg, R) ==
    LET x == CASE agg.f = "COUNT" -> Val(Cardinality(R))
               [] agg.f = "SUM" -> IF R = {} THEN Null ELSE Val(SumOf(agg.col, R))
               [] agg.f = "AVG" ->
                    IF R = {} THEN Null ELSE Val(<<SumOf(agg.col, R), Cardinality(R)>>)
    IN  IF agg.coalesce THEN Coalesce(x, 0) ELSE x

Key(cols, r) == [i \in 1..Len(cols) |-> r[cols[i]]]

\* pd.read_sql(sql, conn, params=params): the rows of the result, each a
\* selected key and the aggregate.  Without GROUP BY an aggregate gives one
\* row; with GROUP BY one row per key among the rows that satisfy WHERE.
\* A select without an aggregate (agg.f = "ROWS") gives the selected
\* columns of each row; its agg column counts equal rows.
read_sql(sql, params) ==
    LET R == {r \in FromRows(sql.from) : Satisfies(sql.where, params, r)}
        G(k) == {r \in R : Key(sql.select, r) = k}
    IN  IF sql.agg.f = "ROWS"
        THEN {[key |-> k, agg |-> Val(Cardinality(G(k)))] : k \in {Key(sql.select, r) : r \in R}}
        ELSE IF sql.group
        THEN {[key |-> k, agg |-> Aggregate(sql.agg, G(k))] : k \in {Key(sql.select, r) : r \in R}}
        ELSE {[key |-> <<>>, agg |-> Aggregate(sql.agg, R)]}

\* ------------------------------------------------------------------------
\* Pieces of the SELECT statements
\* ------------------------------------------------------------------------
T(t, as) == [t |-> t, as |-> as, on |-> <<>>]
Join(t, as, x, y) == [t |-> t, as |-> as, on |-> <<x, y>>]

Count(col) == [f |-> "COUNT", col |-> col, coalesce |-> FALSE]
Sum(col) == [f |-> "SUM", col |-> col, coalesce |-> FALSE]
CoalesceSum(col) == [f |-> "SUM", col |-> col, coalesce |-> TRUE]
Avg(col) == [f |-> "AVG", col |-> col, coalesce |-> FALSE]
Rows == [f |-> "ROWS", col |-> "", coalesce |-> FALSE]

Select(select, agg, from, where, group) ==
    [select |-> select, agg |-> agg, from |-> from, where |-> where, group |-> group]

\* params = {}; conditions = []
NoConditions == [conds |-> <<>>, params |-> <<>>]

\* An element _in_clause(col, values, name, params) of a conditions list.
Listed(cp, col, values, name) ==
    LET c == _in_clause(col, values, name, cp.params)
    IN  [conds |-> Append(cp.conds, c.sql), params |-> c.params]

\* if values: conditions.append(_in_clause(col, values, name, params))
AppendedIf(cp, col, values, name) ==
    IF Truthy(values) THEN Listed(cp, col, values, name) ELSE cp

\* What a call returns, with the statement and the parameters it was run with.
Query(cp, sql) ==
    [sql |-> sql, params |-> cp.params, rows |-> read_sql(sql, cp.params)]

\* ------------------------------------------------------------------------
\* KPI helpers
\* ------------------------------------------------------------------------
count_providers(cities, provider_types) ==
    LET cp == Listed(Listed(NoConditions, "City", cities, "cities"),
                     "Type", provider_types, "ptypes")
    IN  Query(cp, Select(<<>>, Count("*"), <<T("providers", "")>>,
                         _and_join(cp.conds), FALSE))

\* A mutant of count_receivers: the city filter is not applied.
count_receivers_unfiltered(cities) ==
    Query(NoConditions, Select(<<>>, Count("*"), <<T("receivers", "")>>, <<>>, FALSE))

count_receivers(cities) ==
    LET cp == Listed(NoConditions, "City", cities, "cities")
    IN  Query(cp, Select(<<>>, Count("*"), <<T("receivers", "")>>,
                         _and_join(cp.conds), FALSE))

\* A mutant of count_claims: receivers are joined, the city is not filtered.
count_claims_any_city(cities, claim_statuses) ==
    LET joins == IF Truthy(cities)
                 THEN <<Join("receivers", "r.", "c.Receiver_ID", "r.Receiver_ID")>>
                 ELSE <<>>
        cp == AppendedIf(NoConditions, "c.Status", claim_statuses, "cstats")
    IN  Query(cp, Select(<<>>, Count("*"), <<T("claims", "c.")>> \o joins,
                         _and_join(cp.conds), FALSE))

count_claims(cities, claim_statuses) ==
    LET joins == IF Truthy(cities)
                 THEN <<Join("receivers", "r.", "c.Receiver_ID", "r.Receiver_ID")>>
                 ELSE <<>>
        cp == AppendedIf(AppendedIf(NoConditions, "r.City", cities, "cities"),
                         "c.Status", claim_statuses, "cstats")
    IN  Query(cp, Select(<<>>, Count("*"), <<T("claims", "c.")>> \o joins,
                         _and_join(cp.conds), FALSE))

\* A mutant of total_food_quantity_filtered: SUM without COALESCE.
total_food_quantity_filtered_sum(cities, provider_types, food_types, meal_types) ==
    LET cp == Listed(Listed(Listed(Listed(NoConditions,
                     "Location", cities, "cities"),
                     "Provider_Type", provider_types, "ptypes"),
                     "Food_Type", food_types, "ftypes"),
                     "Meal_Type", meal_types, "mtypes")
    IN  Query(cp, Select(<<>>, Sum("Quantity"), <<T("food_listings", "")>>,
                         _and_join(cp.conds), FALSE))

total_food_quantity_filtered(cities, provider_types, food_types, meal_types) ==
    LET cp == Listed(Listed(Listed(Listed(NoConditions,
                     "Location", cities, "cities"),
                     "Provider_Type", provider_types, "ptypes"),
                     "Food_Type", food_types, "ftypes"),
                     "Meal_Type", meal_types, "mtypes")
    IN  Query(cp, Select(<<>>, CoalesceSum("Quantity"), <<T("food_listings", "")>>,
                         _and_join(cp.conds), FALSE))

\* ------------------------------------------------------------------------
\* Reports
\* ------------------------------------------------------------------------
\* A mutant of providers_per_city: the provider type filter is not applied.
providers_per_city_any_type(cities, provider_types) ==
    LET cp == Listed(NoConditions, "City", cities, "cities")
    IN  Query(cp, Select(<<"City">>, Count("*"), <<T("providers", "")>>,
                         _and_join(cp.conds), TRUE))

providers_per_city(cities, provider_types) ==
    LET cp == Listed(Listed(NoConditions, "City", cities, "cities"),
                     "Type", provider_types, "ptypes")
    IN  Query(cp, Select(<<"City">>, Count("*"), <<T("providers", "")>>,
                         _and_join(cp.conds), TRUE))

receivers_per_city(cities) ==
    LET cp == Listed(NoConditions, "City", cities, "cities")
    IN  Query(cp, Select(<<"City">>, Count("*"), <<T("receivers", "")>>,
                         _and_join(cp.conds), TRUE))

top_provider_types(cities) ==
    LET cp == Listed(NoConditions, "City", cities, "cities")
    IN  Query(cp, Select(<<"Type">>, Count("*"), <<T("providers", "")>>,
                         _and_join(cp.conds), TRUE))

provider_contacts(cities) ==
    LET cp == Listed(NoConditions, "City", cities, "cities")
    IN  Query(cp, Select(<<"Name", "City", "Contact">>, Rows, <<T("providers", "")>>,
                         _and_join(cp.conds), FALSE))

\* A mutant of top_receivers: grouped by the receiver's name alone.
top_receivers_by_name(cities, claim_statuses) ==
    LET cp == AppendedIf(AppendedIf(NoConditions, "r.City", cities, "cities"),
                         "c.Status", claim_statuses, "cstats")
    IN  Query(cp, Select(<<"r.Name">>, Count("c.Claim_ID"),
                         <<T("receivers", "r."),
                           Join("claims", "c.", "r.Receiver_ID", "c.Receiver_ID")>>,
                         _and_join(cp.conds), TRUE))

top_receivers(cities, claim_statuses) ==
    LET cp == AppendedIf(AppendedIf(NoConditions, "r.City", cities, "cities"),
                         "c.Status", claim_statuses, "cstats")
    IN  Query(cp, Select(<<"r.Name", "r.City">>, Count("c.Claim_ID"),
                         <<T("receivers", "r."),
                           Join("claims", "c.", "r.Receiver_ID", "c.Receiver_ID")>>,
                         _and_join(cp.conds), TRUE))

total_food_quantity ==
    Query(NoConditions, Select(<<>>, Sum("Quantity"), <<T("food_listings", "")>>,
                               <<>>, FALSE))

city_highest_listings(cities, provider_types, food_types, meal_types) ==
    LET cp == Listed(Listed(Listed(Listed(NoConditions,
                     "Location", cities, "cities"),
                     "Provider_Type", provider_types, "ptypes"),
                     "Food_Type", food_types, "ftypes"),
                     "Meal_Type", meal_types, "mtypes")
    IN  Query(cp, Select(<<"Location">>, Count("*"), <<T("food_listings", "")>>,
                         _and_join(cp.conds), TRUE))

common_food_types(cities) ==
    LET cp == Listed(NoConditions, "Location", cities, "cities")
    IN  Query(cp, Select(<<"Food_Type">>, Count("*"), <<T("food_listings", "")>>,
                         _and_join(cp.conds), TRUE))

claims_per_food(cities, claim_statuses) ==
    LET joins == <<Join("claims", "c.", "f.Food_ID", "c.Food_ID"),
                   Join("receivers", "r.", "c.Receiver_ID", "r.Receiver_ID")>>
        cp == AppendedIf(AppendedIf(NoConditions, "r.City", cities, "cities"),
                         "c.Status", claim_statuses, "cstats")
    IN  Query(cp, Select(<<"f.Food_Name">>, Count("c.Claim_ID"),
                         <<T("food_listings", "f.")>> \o joins,
                         _and_join(cp.conds), TRUE))

\* conditions = ["c.Status = 'Completed'"]
CompletedOnly ==
    [conds |-> <<<<"c.Status", "=", "'", "Completed", "'">>>>, params |-> <<>>]

\* A mutant of top_providers_successful_claims: conditions starts empty.
top_providers_all_claims(cities) ==
    LET cp == AppendedIf(NoConditions, "p.City", cities, "cities")
    IN  Query(cp, Select(<<"p.Name">>, Count("c.Claim_ID"),
                         <<T("providers", "p."),
                           Join("food_listings", "f.", "p.Provider_ID", "f.Provider_ID"),
                           Join("claims", "c.", "f.Food_ID", "c.Food_ID")>>,
                         _and_join(cp.conds), TRUE))

top_providers_successful_claims(cities) ==
    LET cp == AppendedIf(CompletedOnly, "p.City", cities, "cities")
    IN  Query(cp, Select(<<"p.Name">>, Count("c.Claim_ID"),
                         <<T("providers", "p."),
                           Join("food_listings", "f.", "p.Provider_ID", "f.Provider_ID"),
                           Join("claims", "c.", "f.Food_ID", "c.Food_ID")>>,
                         _and_join(cp.conds), TRUE))

\* A mutant of claim_status_distribution: the city filter is not applied.
claim_status_distribution_unfiltered(cities) ==
    Query(NoConditions, Select(<<"c.Status">>, Count("*"), <<T("claims", "c.")>>,
                               <<>>, TRUE))

claim_status_distribution(cities) ==
    LET joins == IF Truthy(cities)
                 THEN <<Join("receivers", "r.", "c.Receiver_ID", "r.Receiver_ID")>>
                 ELSE <<>>
        cp == AppendedIf(NoConditions, "r.City", cities, "cities")
    IN  Query(cp, Select(<<"c.Status">>, Count("*"), <<T("claims", "c.")>> \o joins,
                         _and_join(cp.conds), TRUE))

avg_quantity_per_receiver(cities) ==
    LET cp == AppendedIf(NoConditions, "r.City", cities, "cities")
    IN  Query(cp, Select(<<"r.Name">>, Avg("f.Quantity"),
                         <<T("receivers", "r."),
                           Join("claims", "c.", "r.Receiver_ID", "c.Receiver_ID"),
                           Join("food_listings", "f.", "c.Food_ID", "f.Food_ID")>>,
                         _and_join(cp.conds), TRUE))

most_claimed_meal_type(cities) ==
    LET joins == <<Join("claims", "c.", "f.Food_ID", "c.Food_ID"),
                   Join("receivers", "r.", "c.Receiver_ID", "r.Receiver_ID")>>
        cp == AppendedIf(NoConditions, "r.City", cities, "cities")
    IN  Query(cp, Select(<<"f.Meal_Type">>, Count("c.Claim_ID"),
                         <<T("food_listings", "f.")>> \o joins,
                         _and_join(cp.conds), TRUE))

total_quantity_per_provider(cities) ==
    LET cp == AppendedIf(NoConditions, "p.City", cities, "cities")
    IN  Query(cp, Select(<<"p.Name">>, Sum("f.Quantity"),
                         <<T("providers", "p."),
                           Join("food_listings", "f.", "p.Provider_ID", "f.Provider_ID")>>,
                         _and_join(cp.conds), TRUE))

cities_with_most_claims(cities) ==
    LET cp == AppendedIf(NoConditions, "r.City", cities, "cities")
    IN  Query(cp, Select(<<"r.City">>, Count("c.Claim_ID"),
                         <<T("receivers", "r."),
                           Join("claims", "c.", "r.Receiver_ID", "c.Receiver_ID")>>,
                         _and_join(cp.conds), TRUE))

\* ------------------------------------------------------------------------
\* Calls into the query layer
\* ------------------------------------------------------------------------
\* The keyword arguments of a call; a dimension the function does not take
\* is None.
Args(cities, ptypes, ftypes, mtypes, cstats) ==
    [cities |-> cities, ptypes |-> ptypes, ftypes |-> ftypes, mtypes |-> mtypes,
     cstats |-> cstats]
NoArgs == Args(None, None, None, None, None)

KpiFunctions ==
    {"count_providers", "count_receivers", "count_claims",
     "total_food_quantity_filtered"}
ReportFunctions ==
    {"providers_per_city", "receivers_per_city", "top_provider_types",
     "provider_contacts", "top_receivers", "total_food_quantity",
     "city_highest_listings", "common_food_types", "claims_per_food",
     "top_providers_successful_claims", "claim_status_distribution",
     "avg_quantity_per_receiver", "most_claimed_meal_type",
     "total_quantity_per_provider", "cities_with_most_claims"}

Call(fn, a) ==
    CASE fn = "count_providers" -> count_providers(a.cities, a.ptypes)
      [] fn = "count_receivers" -> count_receivers(a.cities)
      [] fn = "count_claims" -> count_claims(a.cities, a.cstats)
      [] fn = "total_food_quantity_filtered" -> total_food_quantity_filtered(a.cities, a.ptypes, a.ftypes, a.mtypes)
      [] fn = "providers_per_city" -> providers_per_city(a.cities, a.ptypes)
      [] fn = "receivers_per_city" -> receivers_per_city(a.cities)
      [] fn = "top_provider_types" -> top_provider_types(a.cities)
      [] fn = "provider_contacts" -> provider_contacts(a.cities)
      [] fn = "top_receivers" -> top_receivers(a.cities, a.cstats)
      [] fn = "total_food_quantity" -> total_food_quantity
      [] fn = "city_highest_listings" -> city_highest_listings(a.cities, a.ptypes, a.ftypes, a.mtypes)
      [] fn = "common_food_types" -> common_food_types(a.cities)
      [] fn = "claims_per_food" -> claims_per_food(a.cities, a.cstats)
      [] fn = "top_providers_successful_claims" -> top_providers_successful_claims(a.cities)
      [] fn = "claim_status_distribution" -> claim_status_distribution(a.cities)
      [] fn = "avg_quantity_per_receiver" -> avg_quantity_per_receiver(a.cities)
      [] fn = "most_claimed_meal_type" -> most_claimed_meal_type(a.cities)
      [] fn = "total_quantity_per_provider" -> total_quantity_per_provider(a.cities)
      [] fn = "cities_with_most_claims" -> cities_with_most_claims(a.cities)

\* conn = get_connection(); try: .. return pd.read_sql(..) finally: conn.close()
query_conn(raised) == <<"open", "read", "close">>

\* Filter values offered to the calls.
CityArgs == {None, List({}), List({<<"d">>}), List({<<"d">>, <<"m">>})}
ProviderTypeArgs == {None, List({"Restaurant"})}
FoodMealArgs ==
    {<<None, None>>, <<List({"Vegetarian"}), List({"Lunch", "Breakfast"})>>,
     <<List({}), List({"Lunch"})>>}
ClaimStatusArgs == {None, List({"Completed"}), List({"Completed", "Pending"})}

CityOnlyArgs == {Args(c, None, None, None, None) : c \in CityArgs}
ProviderArgs == {Args(c, t, None, None, None) : c \in CityArgs, t \in ProviderTypeArgs}
ClaimArgs == {Args(c, None, None, None, s) : c \in CityArgs, s \in ClaimStatusArgs}
FoodArgs ==
    {Args(c, t, fm[1], fm[2], None) :
        c \in CityArgs, t \in ProviderTypeArgs, fm \in FoodMealArgs}

\* A call returns: the caller holds the table, the connection is closed.
Returns(fn, a) ==
    /\ report' = [fn |-> fn, raised |-> FALSE, args |-> a] @@ Call(fn, a)
    /\ conn_log' = query_conn(FALSE)
    /\ UNCHANGED <<store, cache, db_error, result>>

Run_count_providers(a) == Tick /\ Returns("count_providers", a)
Run_count_receivers(a) == Tick /\ Returns("count_receivers", a)
Run_count_claims(a) == Tick /\ Returns("count_claims", a)
Run_total_food_quantity_filtered(a) == Tick /\ Returns("total_food_quantity_filtered", a)
Run_providers_per_city(a) == Tick /\ Returns("providers_per_city", a)
Run_receivers_per_city(a) == Tick /\ Returns("receivers_per_city", a)
Run_top_provider_types(a) == Tick /\ Returns("top_provider_types", a)
Run_provider_contacts(a) == Tick /\ Returns("provider_contacts", a)
Run_top_receivers(a) == Tick /\ Returns("top_receivers", a)
Run_total_food_quantity(a) == Tick /\ Returns("total_food_quantity", a)
Run_city_highest_listings(a) == Tick /\ Returns("city_highest_listings", a)
Run_common_food_types(a) == Tick /\ Returns("common_food_types", a)
Run_claims_per_food(a) == Tick /\ Returns("claims_per_food", a)
Run_top_providers_successful_claims(a) == Tick /\ Returns("top_providers_successful_claims", a)
Run_claim_status_distribution(a) == Tick /\ Returns("claim_status_distribution", a)
Run_avg_quantity_per_receiver(a) == Tick /\ Returns("avg_quantity_per_receiver", a)
Run_most_claimed_meal_type(a) == Tick /\ Returns("most_claimed_meal_type", a)
Run_total_quantity_per_provider(a) == Tick /\ Returns("total_quantity_per_provider", a)
Run_cities_with_most_claims(a) == Tick /\ Returns("cities_with_most_claims", a)

\* One call in which pd.read_sql raises: the exception leaves the function.
ReadSqlRaises ==
    /\ Tick
    /\ \E fn \in KpiFunctions \cup ReportFunctions :
          report' = [fn |-> fn, raised |-> TRUE, args |-> NoArgs]
    /\ conn_log' = query_conn(TRUE)
    /\ UNCHANGED <<store, cache, db_error, result>>

\* ------------------------------------------------------------------------
\* Stores for the query layer: any rows of the tables below that respect
\* the foreign keys, up to MaxRows rows in all; the next_id reads either not
\* yet made or memoized.
\* ------------------------------------------------------------------------
MaxRows == 6

QProviders ==
    <<[Name |-> <<"a">>, Type |-> "Restaurant", Address |-> <<"x">>,
       City |-> <<"d">>, Contact |-> <<"c">>],
      [Name |-> <<"a">>, Type |-> "Restaurant", Address |-> <<"y">>,
       City |-> <<"m">>, Contact |-> <<"c">>],
      [Name |-> <<"b">>, Type |-> "Grocery Store", Address |-> <<"x">>,
       City |-> <<"d">>, Contact |-> <<"c">>]>>
QReceivers ==
    <<[Name |-> <<"s">>, Type |-> "Shelter", City |-> <<"d">>, Contact |-> <<"c">>],
      [Name |-> <<"s">>, Type |-> "NGO", City |-> <<"m">>, Contact |-> <<"c">>]>>
QFood ==
    <<[Food_Name |-> <<"g">>, Quantity |-> 5, Expiry_Date |-> 1, Provider_ID |-> 1,
       Provider_Type |-> "Restaurant", Location |-> <<"d">>,
       Food_Type |-> "Vegetarian", Meal_Type |-> "Breakfast"],
      [Food_Name |-> <<"g">>, Quantity |-> 3, Expiry_Date |-> 1, Provider_ID |-> 2,
       Provider_Type |-> "Restaurant", Location |-> <<"m">>,
       Food_Type |-> "Vegan", Meal_Type |-> "Lunch"],
      [Food_Name |-> <<"h">>, Quantity |-> 2, Expiry_Date |-> 1, Provider_ID |-> 3,
       Provider_Type |-> "Grocery Store", Location |-> <<"d">>,
       Food_Type |-> "Vegetarian", Meal_Type |-> "Lunch"]>>
QClaims ==
    <<[Food_ID |-> 1, Receiver_ID |-> 1, Status |-> "Completed", Timestamp |-> 1],
      [Food_ID |-> 1, Receiver_ID |-> 2, Status |-> "Pending", Timestamp |-> 1],
      [Food_ID |-> 2, Receiver_ID |-> 1, Status |-> "Completed", Timestamp |-> 1],
      [Food_ID |-> 3, Receiver_ID |-> 1, Status |-> "Pending", Timestamp |-> 1]>>

Picked(rows, S) == [i \in S |-> rows[i]]

InitQ ==
    /\ \E P \in SUBSET DOMAIN QProviders, R \in SUBSET DOMAIN QReceivers,
          F \in SUBSET DOMAIN QFood, C \in SUBSET DOMAIN QClaims :
          /\ Cardinality(P) + Cardinality(R) + Cardinality(F) + Cardinality(C) <= MaxRows
          /\ \A i \in F : QFood[i].Provider_ID \in P
          /\ \A i \in C : QClaims[i].Food_ID \in F /\ QClaims[i].Receiver_ID \in R
          /\ providers = Picked(QProviders, P)
          /\ receivers = Picked(QReceivers, R)
          /\ food_listings = Picked(QFood, F)
          /\ claims = Picked(QClaims, C)
          /\ food_auto = MaxOf(F) + 1
    /\ fk_policy \in {"RESTRICT", "CASCADE"}
    /\ providers_df = Keys(providers)
    /\ receivers_df = Keys(receivers)
    /\ food_df = Keys(food_listings)
    /\ claims_df = Keys(claims)
    /\ next_id_cache \in
          {[providers |-> 0, receivers |-> 0, claims |-> 0],
           [providers |-> NextIdQuery(providers), receivers |-> NextIdQuery(receivers),
            claims |-> NextIdQuery(claims)]}
    /\ db_error = ""
    /\ result = NoBanner("Start")
    /\ steps = MaxSteps - 1
    /\ report = NoReport
    /\ conn_log = <<>>
    /\ sessions = NoSessions

\* One operation on the store: a call into the query layer, or a mutation.
NextQ ==
    \/ \E a \in ProviderArgs : Run_count_providers(a)
    \/ \E a \in CityOnlyArgs : Run_count_receivers(a)
    \/ \E a \in ClaimArgs : Run_count_claims(a)
    \/ \E a \in FoodArgs : Run_total_food_quantity_filtered(a)
    \/ \E a \in ProviderArgs : Run_providers_per_city(a)
    \/ \E a \in CityOnlyArgs : Run_receivers_per_city(a)
    \/ \E a \in CityOnlyArgs : Run_top_provider_types(a)
    \/ \E a \in CityOnlyArgs : Run_provider_contacts(a)
    \/ \E a \in ClaimArgs : Run_top_receivers(a)
    \/ \E a \in {NoArgs} : Run_total_food_quantity(a)
    \/ \E a \in FoodArgs : Run_city_highest_listings(a)
    \/ \E a \in CityOnlyArgs : Run_common_food_types(a)
    \/ \E a \in ClaimArgs : Run_claims_per_food(a)
    \/ \E a \in CityOnlyArgs : Run_top_providers_successful_claims(a)
    \/ \E a \in CityOnlyArgs : Run_claim_status_distribution(a)
    \/ \E a \in CityOnlyArgs : Run_avg_quantity_per_receiver(a)
    \/ \E a \in CityOnlyArgs : Run_most_claimed_meal_type(a)
    \/ \E a \in CityOnlyArgs : Run_total_quantity_per_provider(a)
    \/ \E a \in CityOnlyArgs : Run_cities_with_most_claims(a)
    \/ ReadSqlRaises
    \/ Next

SpecQ == InitQ /\ [][NextQ]_vars

\* ========================================================================
\* Claims about the query layer
\* ========================================================================
\* A call has returned, and report holds what it returned.
Returned == report.fn # "none" /\ ~report.raised
ReturnedFrom(fn) == report.fn = fn /\ ~report.raised

\* What the filters mean, stated on the tables themselves: a dimension that
\* is absent or empty admits every row, another admits the rows whose column
\* holds one of its values.
Admits(values, x) == ~Truthy(values) \/ x \in values.vals

MatchingProviders(a) ==
    {i \in Keys(providers) :
        Admits(a.cities, providers[i].City) /\ Admits(a.ptypes, providers[i].Type)}
MatchingReceivers(a) ==
    {i \in Keys(receivers) : Admits(a.cities, receivers[i].City)}
MatchingClaims(a) ==
    {i \in Keys(claims) :
        /\ Admits(a.cstats, claims[i].Status)
        /\ Truthy(a.cities) =>
              /\ claims[i].Receiver_ID \in Keys(receivers)
              /\ receivers[claims[i].Receiver_ID].City \in a.cities.vals}
MatchingFood(a) ==
    {i \in Keys(food_listings) :
        /\ Admits(a.cities, food_listings[i].Location)
        /\ Admits(a.ptypes, food_listings[i].Provider_Type)
        /\ Admits(a.ftypes, food_listings[i].Food_Type)
        /\ Admits(a.mtypes, food_listings[i].Meal_Type)}

\* The rows a KPI is computed over.
KpiMatching(fn, a) ==
    CASE fn = "count_providers" -> MatchingProviders(a)
      [] fn = "count_receivers" -> MatchingReceivers(a)
      [] fn = "count_claims" -> MatchingClaims(a)
      [] fn = "total_food_quantity_filtered" -> MatchingFood(a)

\* The single row of a KPI whose value is n.
KpiRow(n) == {[key |-> <<>>, agg |-> Val(n)]}

\* C11: each of the four KPI queries returns one row holding the value 0 (not
\* NULL, not an empty table) whenever no row of its table matches the
\* filters, empty tables included.
C11_KpiZeroWhenNoMatch ==
    (Returned /\ report.fn \in KpiFunctions /\ KpiMatching(report.fn, report.args) = {})
        => report.rows = KpiRow(0)

\* A quantity KPI over listings none of which is in the selected city.
C11_Witness ==
    /\ ReturnedFrom("total_food_quantity_filtered")
    /\ food_listings # EmptyTable
    /\ Truthy(report.args.cities)
    /\ MatchingFood(report.args) = {}
    /\ report.rows = KpiRow(0)

\* C12: no report and no KPI function returns NULL in its aggregate column,
\* whatever the store holds, all tables empty included.
C12_NoNullAggregate ==
    Returned => \A row \in report.rows : ~row.agg.null

\* The filter dimensions, and the column each function is documented to
\* bind a dimension to ("" = the function does not take the dimension).
Dims == {"cities", "ptypes", "ftypes", "mtypes", "cstats"}
Cols(cities, ptypes, ftypes, mtypes, cstats) ==
    [cities |-> cities, ptypes |-> ptypes, ftypes |-> ftypes, mtypes |-> mtypes,
     cstats |-> cstats]
Binding(fn) ==
    CASE fn \in {"count_providers", "providers_per_city"} ->
           Cols("City", "Type", "", "", "")
      [] fn \in {"count_receivers", "receivers_per_city", "top_provider_types",
                 "provider_contacts"} ->
           Cols("City", "", "", "", "")
      [] fn \in {"count_claims", "top_receivers", "claims_per_food"} ->
           Cols("r.City", "", "", "", "c.Status")
      [] fn \in {"total_food_quantity_filtered", "city_highest_listings"} ->
           Cols("Location", "Provider_Type", "Food_Type", "Meal_Type", "")
      [] fn = "common_food_types" -> Cols("Location", "", "", "", "")
      [] fn \in {"top_providers_successful_claims", "total_quantity_per_provider"} ->
           Cols("p.City", "", "", "", "")
      [] fn \in {"claim_status_distribution", "avg_quantity_per_receiver",
                 "most_claimed_meal_type", "cities_with_most_claims"} ->
           Cols("r.City", "", "", "", "")
      [] fn = "total_food_quantity" -> Cols("", "", "", "", "")

\* The dimensions of the last call that hold at least one value.
NonEmptyDims == {d \in Dims : Truthy(report.args[d])}

\* Conditions a function puts in its WHERE clause whatever the filters are.
FixedConditions(fn) ==
    IF fn = "top_providers_successful_claims"
    THEN {<<"c.Status", "=", "'", "Completed", "'">>}
    ELSE {}

\* The rows the statement of the last call selects from its FROM clause.
Selected ==
    {r \in FromRows(report.sql.from) : Satisfies(report.sql.where, report.params, r)}

\* The rows that, in every non-empty dimension, hold one of its values.
Wanted ==
    {r \in FromRows(report.sql.from) :
        /\ \A d \in NonEmptyDims : r[Binding(report.fn)[d]] \in report.args[d].vals
        /\ \A c \in FixedConditions(report.fn) : r[c[1]] = c[4]}

\* C13: the WHERE fragment selects exactly the rows that match every
\* non-empty dimension (any of its values); it holds one IN condition per
\* non-empty dimension and none for an empty or absent one; with no
\* condition at all it is the empty text, without the WHERE keyword.
C13_FragmentIsConjunctionOfDisjunctions ==
    Returned =>
        LET n == Cardinality(NonEmptyDims) + Cardinality(FixedConditions(report.fn))
        IN  /\ Selected = Wanted
            /\ {c \in Conditions(report.sql.where) : c[2] = "IN"}
                 = {<<Binding(report.fn)[d], "IN", "%(", d, ")s">> : d \in NonEmptyDims}
            /\ Len(report.sql.where) = 6 * n
            /\ n = 0 <=> report.sql.where = <<>>
            /\ n > 0 => report.sql.where[1] = "WHERE"

\* Three non-empty dimensions and an empty one: a row passes all three, and
\* two of them each rule out a row that the other dimensions admit.
C13_Witness ==
    /\ ReturnedFrom("city_highest_listings")
    /\ NonEmptyDims = {"cities", "ptypes", "mtypes"}
    /\ report.args.ftypes = List({})
    /\ Selected # {}
    /\ \A d \in {"ptypes", "mtypes"} :
          \E r \in FromRows(report.sql.from) :
             /\ r[Binding(report.fn)[d]] \notin report.args[d].vals
             /\ \A e \in NonEmptyDims \ {d} :
                   r[Binding(report.fn)[e]] \in report.args[e].vals

\* The last call made again with other values in the same non-empty
\* dimensions.
Elsewhere(v, x) == IF Truthy(v) THEN List({x}) ELSE v
OtherValues(a) ==
    Args(Elsewhere(a.cities, <<"z">>), Elsewhere(a.ptypes, "Z"),
         Elsewhere(a.ftypes, "Z"), Elsewhere(a.mtypes, "Z"), Elsewhere(a.cstats, "Z"))

\* C14: the IN clauses of one statement use pairwise distinct parameter
\* names; the parameter mapping has exactly one entry per non-empty
\* dimension, holding that dimension's values; the statement text does not
\* depend on the filter values.
C14_OneParameterPerDimension ==
    Returned =>
        LET ins == {c \in Conditions(report.sql.where) : c[2] = "IN"}
        IN  /\ Cardinality({c[4] : c \in ins}) = Cardinality(NonEmptyDims)
            /\ Cardinality(ins) = Cardinality(NonEmptyDims)
            /\ DOMAIN report.params = NonEmptyDims
            /\ \A d \in NonEmptyDims : report.params[d] = report.args[d].vals
            /\ Call(report.fn, OtherValues(report.args)).sql = report.sql

\* Two IN clauses in one statement, one with two values.
C14_Witness ==
    /\ ReturnedFrom("claims_per_food")
    /\ NonEmptyDims = {"cities", "cstats"}
    /\ Cardinality(report.args.cstats.vals) = 2
    /\ report.rows # {}

\* The city values of the stores.
CityValues == {<<"d">>, <<"m">>}

\* The last call was a report filtered by a single city X.
OneCityReport ==
    /\ Returned
    /\ report.fn \in ReportFunctions
    /\ Binding(report.fn).cities # ""
    /\ Truthy(report.args.cities)
    /\ Cardinality(report.args.cities.vals) = 1

\* The rows of the same call with the city Y added to the filter.
WithCity(Y) ==
    Call(report.fn,
         [report.args EXCEPT !.cities = List(report.args.cities.vals \cup {Y})]).rows

\* The reports whose rows carry the city the filter is bound to.
KeyedByCity ==
    {"providers_per_city", "receivers_per_city", "city_highest_listings",
     "cities_with_most_claims", "top_receivers", "provider_contacts"}

\* C15 as stated: for every report, each row returned for the city set {X}
\* is returned, with the same key and the same aggregate, for {X, Y}.
C15_OneCityRowsAmongTwoCityRows ==
    OneCityReport => \A Y \in CityValues : report.rows \subseteq WithCity(Y)

\* C15 amended: the keys returned for {X} are among the keys returned for
\* {X, Y} for every report; the rows are returned with equal aggregate for
\* the reports whose key includes the filtered city.
C15_KeysAmongAndCityGroupsEqual ==
    OneCityReport =>
        \A Y \in CityValues :
            /\ {row.key : row \in report.rows} \subseteq {row.key : row \in WithCity(Y)}
            /\ report.fn \in KeyedByCity => report.rows \subseteq WithCity(Y)

\* Receivers of the same name in both cities hold claims: the two-city
\* result has the one-city rows and more.
C15_Witness ==
    /\ OneCityReport
    /\ report.fn = "top_receivers"
    /\ report.rows # {}
    /\ \E Y \in CityValues :
          /\ report.rows \subseteq WithCity(Y)
          /\ report.rows # WithCity(Y)
          /\ \E x \in report.rows, y \in WithCity(Y) : x.key[1] = y.key[1] /\ x # y

\* Every city value a filter can name: the cities of the stores, and one
\* that no row has.
CityUniverse == CityValues \cup {<<"z">>}

\* The partitions of a set into disjoint non-empty blocks.
Partitions(S) ==
    {P \in SUBSET (SUBSET S \ {{}}) :
        /\ UNION P = S
        /\ \A A \in P, B \in P : A # B => A \cap B = {}}

\* The value of a KPI result.
KpiValue(rows) == (CHOOSE row \in rows : TRUE).agg.v

RECURSIVE SumOverBlocks(_)
\* The sum of the last KPI called once per block, with the block as the city
\* filter and the other filters as they were.
SumOverBlocks(P) ==
    IF P = {} THEN 0
    ELSE LET block == CHOOSE b \in P : TRUE
         IN  KpiValue(Call(report.fn, [report.args EXCEPT !.cities = List(block)]).rows)
             + SumOverBlocks(P \ {block})

\* The last call was a KPI without a city filter.
KpiWithoutCity ==
    Returned /\ report.fn \in KpiFunctions /\ ~Truthy(report.args.cities)

\* C16: a KPI called without a city filter equals the sum of the same KPI
\* called with each block of any partition of the city values as its city
\* filter.
C16_KpiIsSumOverCityPartition ==
    KpiWithoutCity =>
        \A P \in Partitions(CityUniverse) : KpiValue(report.rows) = SumOverBlocks(P)

\* Claims of receivers in both cities, counted without a city filter.
C16_Witness ==
    /\ KpiWithoutCity
    /\ report.fn = "count_claims"
    /\ \A c \in CityValues :
          KpiValue(Call(report.fn, [report.args EXCEPT !.cities = List({c})]).rows) > 0
    /\ KpiValue(report.rows) > 1

\* One row per key of the items, with the number of items of that key.
CountedBy(items, KeyOf(_)) ==
    {[key |-> <<k>>, agg |-> Val(Cardinality({i \in items : KeyOf(i) = k}))] :
        k \in {KeyOf(i) : i \in items}}

\* C17: providers_per_city returns one row per city that has a provider
\* matching the city and provider type filters, with the number of matching
\* providers of that city, and no other row.
C17_ProvidersPerCity ==
    ReturnedFrom("providers_per_city") =>
        report.rows = CountedBy(MatchingProviders(report.args),
                                LAMBDA i : providers[i].City)

\* Providers of two cities and two types; the filters leave one of them.
C17_Witness ==
    /\ ReturnedFrom("providers_per_city")
    /\ Cardinality(Keys(providers)) = 3
    /\ Truthy(report.args.ptypes)
    /\ report.args.cities = List({<<"d">>})
    /\ report.rows = {[key |-> <<<<"d">>>>, agg |-> Val(1)]}

\* C18: claim_status_distribution returns one row per status present among
\* the claims it counts, with the number of those claims: every claim
\* without a city filter, the claims of receivers in the selected cities
\* with one.
C18_ClaimStatusDistribution ==
    ReturnedFrom("claim_status_distribution") =>
        report.rows = CountedBy(MatchingClaims(report.args),
                                LAMBDA i : claims[i].Status)

\* One Completed and one Pending claim, of receivers in different cities:
\* the city filter keeps the Completed one.
C18_Witness ==
    /\ ReturnedFrom("claim_status_distribution")
    /\ CountedBy(Keys(claims), LAMBDA i : claims[i].Status)
         = {[key |-> <<"Completed">>, agg |-> Val(1)],
            [key |-> <<"Pending">>, agg |-> Val(1)]}
    /\ report.args.cities = List({<<"d">>})
    /\ report.rows = {[key |-> <<"Completed">>, agg |-> Val(1)]}

\* The provider a claim's food listing belongs to.
ProviderOfClaim(i) == providers[food_listings[claims[i].Food_ID].Provider_ID]

\* The Completed claims on listings of providers in the selected cities.
SuccessfulClaims(a) ==
    {i \in Keys(claims) :
        /\ claims[i].Status = "Completed"
        /\ claims[i].Food_ID \in Keys(food_listings)
        /\ food_listings[claims[i].Food_ID].Provider_ID \in Keys(providers)
        /\ Admits(a.cities, ProviderOfClaim(i).City)}

\* C19: top_providers_successful_claims returns, per provider name, the
\* number of Completed claims on that provider's listings, with or without
\* a city filter; the city filter is on the provider's city.
C19_OnlyCompletedByProviderCity ==
    ReturnedFrom("top_providers_successful_claims") =>
        report.rows = CountedBy(SuccessfulClaims(report.args),
                                LAMBDA i : ProviderOfClaim(i).Name)

\* No city selected, and a provider with a Completed and a Pending claim.
C19_Witness ==
    /\ ReturnedFrom("top_providers_successful_claims")
    /\ ~Truthy(report.args.cities)
    /\ \E i \in Keys(claims), j \in Keys(claims) :
          /\ claims[i].Status = "Completed" /\ claims[j].Status = "Pending"
          /\ claims[i].Food_ID = claims[j].Food_ID
    /\ report.rows = {[key |-> <<<<"a">>>>, agg |-> Val(1)]}

\* ------------------------------------------------------------------------
\* Connections
\* ------------------------------------------------------------------------
RECURSIVE Times(_, _)
\* How often a log holds one of the events.
Times(events, log) ==
    IF log = <<>> THEN 0
    ELSE (IF Head(log) \in events THEN 1 ELSE 0) + Times(events, Tail(log))

Opens(log) == Times({"open"}, log)
Closes(log) == Times({"close"}, log)
Statements(log) == Times({"read", "execute"}, log)

\* Every connection opened is closed, none is closed before it is opened,
\* and every read or statement runs on an open connection.
AllClosed(log) ==
    /\ Opens(log) = Closes(log)
    /\ \A n \in 1..Len(log) :
          LET before == SubSeq(log, 1, n - 1)
          IN  log[n] # "open" => Opens(before) > Closes(before)

\* The last operation was a query call, or a mutation that issued its statement.
QueryOrMutation == report.fn # "none" \/ result.stmts = 1

\* C20 as stated: each query and each mutation opens one connection,
\* executes one statement or read, and closes the connection.
C20_OneConnectionOneStatement ==
    QueryOrMutation =>
        Opens(conn_log) = 1 /\ Statements(conn_log) = 1 /\ Closes(conn_log) = 1

\* C20 amended: a query call opens one connection, makes one read and closes
\* it, whether it returns or raises.  A CRUD submission opens one connection
\* and closes it, with no statement when validation rejects the form and one
\* statement otherwise; a Provider, Receiver or Claim create whose next_id
\* read is not memoized opens and closes a second connection for that read.
\* No operation leaves a connection open.
C20_ConnectionsClosedAndCounted ==
    [][/\ AllClosed(conn_log')
       /\ report' # report =>
             conn_log' = <<"open", "read", "close">>
       /\ (report' = report /\ result'.kind = "validation") =>
             Opens(conn_log') = 1 /\ Statements(conn_log') = 0
       /\ (report' = report /\ result'.stmts = 1) =>
             LET loaded == IF next_id_cache' # next_id_cache THEN 1 ELSE 0
             IN  /\ Opens(conn_log') = 1 + loaded
                 /\ Statements(conn_log') = 1 + loaded
                 /\ loaded = 1 =>
                       result'.op \in {"ProvidersAdd", "ReceiversAdd", "ClaimsAdd"}
      ]_vars

\* A statement the store refused: rolled back, and the connection closed.
C20_Witness ==
    /\ result.kind = "store_error"
    /\ conn_log = <<"open", "execute", "rollback", "close">>

\* ========================================================================
\* Claims about the CRUD tab, continued
\* ========================================================================
\* C21: right after a successful Food-listing create, the Provider_Type of
\* the new listing equals the Type of the provider it references.
C21_ProviderTypeCopiedAtCreate ==
    (result.op = "FoodAdd" /\ result.kind = "success") =>
        LET listing == food_listings[result.id]
        IN  listing.Provider_Type = providers[listing.Provider_ID].Type

\* The memoized results of load_table: the four snapshots and the three
\* next_id reads.
SnapshotsKept == UNCHANGED <<providers_df, receivers_df, food_df, claims_df>>

\* C23: no create, update or delete invalidates or refreshes a memoized
\* result of load_table.  The four snapshots stay as first loaded, a next_id
\* read that has run keeps its first result, and a create that reads next_id
\* again is given that first result, whatever the store holds by then.
C23_MutationsKeepMemoizedLoads ==
    [][result'.op # "Restart" =>
          /\ SnapshotsKept
          /\ \A n \in DOMAIN next_id_cache :
                next_id_cache[n] # 0 =>
                   /\ next_id_cache'[n] = next_id_cache[n]
                   /\ (n = "providers" /\ result'.op = "ProvidersAdd" /\ result'.stmts = 1)
                         => result'.id = next_id_cache[n]
                   /\ (n = "receivers" /\ result'.op = "ReceiversAdd" /\ result'.stmts = 1)
                         => result'.id = next_id_cache[n]
                   /\ (n = "claims" /\ result'.op = "ClaimsAdd" /\ result'.stmts = 1)
                         => result'.id = next_id_cache[n]
      ]_vars

\* After mutations the provider snapshot and the memoized next provider id
\* are both behind the store.
C23_Witness ==
    /\ providers_df # Keys(providers)
    /\ next_id_cache.providers # 0
    /\ next_id_cache.providers # NextIdQuery(providers)
    /\ result.op = "ProvidersAdd" /\ result.kind = "store_error"

\* Between table t and table u nothing differs but the named columns of
\* the row id.
OnlyChanged(t, u, id, columns) ==
    /\ Keys(u) = Keys(t)
    /\ \A i \in Keys(t) :
          /\ i # id => u[i] = t[i]
          /\ \A c \in DOMAIN t[i] \ columns : u[i][c] = t[i][c]

\* C24: an update changes only the columns it sets, in the row of the given
\* key and in no other row, and changes no key and no other table: a
\* Food-listing update sets Quantity, Expiry_Date, Location and Meal_Type,
\* a Claim update sets Status.
C24_UpdatesChangeOnlyTheirFields ==
    [][/\ result'.op = "FoodUpdate" =>
             /\ OnlyChanged(food_listings, food_listings', result'.arg,
                            {"Quantity", "Expiry_Date", "Location", "Meal_Type"})
             /\ UNCHANGED <<providers, receivers, claims, food_auto>>
       /\ result'.op = "ClaimsUpdate" =>
             /\ OnlyChanged(claims, claims', result'.arg, {"Status"})
             /\ UNCHANGED <<providers, receivers, food_listings, food_auto>>
       /\ result'.op = "ProvidersUpdate" =>
             /\ OnlyChanged(providers, providers', result'.arg,
                            {"Name", "Type", "Address", "City", "Contact"})
             /\ UNCHANGED <<receivers, food_listings, claims, food_auto>>
       /\ result'.op = "ReceiversUpdate" =>
             /\ OnlyChanged(receivers, receivers', result'.arg,
                            {"Name", "Type", "City", "Contact"})
             /\ UNCHANGED <<providers, food_listings, claims, food_auto>>
      ]_vars

\* Two listings, one of them updated: it has the new meal type and its old
\* food type, the other listing has neither changed.
C24_Witness ==
    /\ result.op = "FoodUpdate" /\ result.kind = "success" /\ result.rows = 1
    /\ \E j \in Keys(food_listings) \ {result.arg} :
          food_listings[j].Meal_Type # "Dinner"
    /\ food_listings[result.arg].Meal_Type = "Dinner"
    /\ food_listings[result.arg].Food_Type \in {"Vegan", "Vegetarian"}

\* ========================================================================
\* Claims about the query layer, continued
\* ========================================================================
RECURSIVE SumOfAggregates(_)
\* The sum of the aggregate column of a result.
SumOfAggregates(rows) ==
    IF rows = {} THEN 0
    ELSE LET row == CHOOSE x \in rows : TRUE
         IN  row.agg.v + SumOfAggregates(rows \ {row})

\* The last call was the claims KPI without a status filter.
ClaimsKpiWithoutStatus ==
    ReturnedFrom("count_claims") /\ ~Truthy(report.args.cstats)

\* C25: for every store and every city set, the empty one included, the
\* claims KPI without a status filter equals the sum of Count over
\* claim_status_distribution and the sum of Claim_Count over
\* cities_with_most_claims for the same cities.
C25_ClaimsKpiAgreesWithReports ==
    ClaimsKpiWithoutStatus =>
        /\ KpiValue(report.rows)
             = SumOfAggregates(claim_status_distribution(report.args.cities).rows)
        /\ KpiValue(report.rows)
             = SumOfAggregates(cities_with_most_claims(report.args.cities).rows)

\* No city selected: the KPI counts the claims without joining receivers,
\* the per-city report joins them, and both reports have two rows.
C25_Witness ==
    /\ ClaimsKpiWithoutStatus
    /\ ~Truthy(report.args.cities)
    /\ Len(report.sql.from) = 1
    /\ KpiValue(report.rows) >= 2
    /\ Cardinality(claim_status_distribution(report.args.cities).rows) = 2
    /\ Cardinality(cities_with_most_claims(report.args.cities).rows) = 2

\* ========================================================================
\* The dashboard: one run of the script with the sidebar selections
\* ========================================================================
\* filters_for_analytics: the selections when the checkbox is on, empty
\* lists when it is off.
filters_for_analytics(choice, apply_filters_to_analytics) ==
    [cities |-> IF apply_filters_to_analytics THEN choice.cities ELSE List({}),
     provider_types |-> IF apply_filters_to_analytics THEN choice.provider_types
                        ELSE List({}),
     food_types |-> IF apply_filters_to_analytics THEN choice.food_types ELSE List({}),
     meal_types |-> IF apply_filters_to_analytics THEN choice.meal_types ELSE List({}),
     claim_statuses |-> IF apply_filters_to_analytics THEN choice.claim_statuses
                        ELSE List({})]

\* A mutant of q_top_receivers: the claim status selection is passed on.
q_top_receivers_by_status(f) == Args(f.cities, None, None, None, f.claim_statuses)

\* q_top_receivers = queries.top_receivers(cities=filters_for_analytics["cities"])
q_top_receivers(f) == Args(f.cities, None, None, None, None)

\* The calls of the KPI section and of the Analytics tab, with the keyword
\* arguments each is given.
AnalyticsCalls(f) ==
    [count_providers |-> Args(f.cities, f.provider_types, None, None, None),
     count_receivers |-> Args(f.cities, None, None, None, None),
     count_claims |-> Args(f.cities, None, None, None, f.claim_statuses),
     total_food_quantity_filtered |->
         Args(f.cities, f.provider_types, f.food_types, f.meal_types, None),
     providers_per_city |-> Args(f.cities, f.provider_types, None, None, None),
     receivers_per_city |-> Args(f.cities, None, None, None, None),
     top_provider_types |-> Args(f.cities, None, None, None, None),
     top_receivers |-> q_top_receivers(f),
     city_highest_listings |->
         Args(f.cities, f.provider_types, f.food_types, f.meal_types, None),
     common_food_types |-> Args(f.cities, None, None, None, None),
     claims_per_food |-> Args(f.cities, None, None, None, f.claim_statuses),
     top_providers_successful_claims |-> Args(f.cities, None, None, None, None),
     claim_status_distribution |-> Args(f.cities, None, None, None, None),
     avg_quantity_per_receiver |-> Args(f.cities, None, None, None, None),
     most_claimed_meal_type |-> Args(f.cities, None, None, None, None),
     total_quantity_per_provider |-> Args(f.cities, None, None, None, None),
     cities_with_most_claims |-> Args(f.cities, None, None, None, None)]

\* What the calls return.
Analytics(f) ==
    [fn \in DOMAIN AnalyticsCalls(f) |-> Call(fn, AnalyticsCalls(f)[fn]).rows]

\* The sidebar selections offered to a run.
Choices ==
    [cities : {List({}), List({<<"d">>})},
     provider_types : {List({}), List({"Restaurant"})},
     food_types : {List({})},
     meal_types : {List({})},
     claim_statuses : {List({}), List({"Completed"}), List({"Pending"})}]

RECURSIVE Repeated(_, _)
Repeated(log, n) == IF n = 0 THEN <<>> ELSE log \o Repeated(log, n - 1)

\* One run of the script: the KPIs and the Analytics tab are computed from
\* the selections; the CRUD tab opens and closes its connection.
Rerun(choice, apply_filters_to_analytics) ==
    LET f == filters_for_analytics(choice, apply_filters_to_analytics)
    IN  /\ Tick
        /\ report' = [fn |-> "dashboard", raised |-> FALSE, choice |-> choice,
                      apply |-> apply_filters_to_analytics, filters |-> f,
                      calls |-> AnalyticsCalls(f), results |-> Analytics(f)]
        /\ conn_log' = Repeated(query_conn(FALSE), Cardinality(DOMAIN AnalyticsCalls(f)))
                       \o crud_conn(FALSE, FALSE, FALSE)
        /\ UNCHANGED <<store, cache, db_error, result>>

NextD == \E choice \in Choices, apply \in BOOLEAN : Rerun(choice, apply)

SpecD == InitQ /\ [][NextD]_vars

\* The results of the last run had the claim status selection been s.
WithStatuses(s) ==
    Analytics(filters_for_analytics([report.choice EXCEPT !.claim_statuses = s],
                                    report.apply))

\* C26: two runs over the same store that differ only in the claim status
\* selection give the same result for every KPI and report except the claims
\* KPI and claims_per_food; top_receivers is called without the status
\* selection; with the checkbox off every call is given only empty filters.
C26_StatusSelectionReachesTwoCalls ==
    report.fn = "dashboard" =>
        /\ \A s \in {c.claim_statuses : c \in Choices} :
              \A fn \in DOMAIN report.results \ {"count_claims", "claims_per_food"} :
                 WithStatuses(s)[fn] = report.results[fn]
        /\ report.calls.top_receivers.cstats = None
        /\ ~report.apply =>
              \A fn \in DOMAIN report.calls, d \in Dims : ~Truthy(report.calls[fn][d])

\* The checkbox is on and a status is selected: the claims KPI follows the
\* selection, the top-receivers report does not although the filter would
\* change it.
C26_Witness ==
    /\ report.fn = "dashboard"
    /\ report.apply
    /\ Truthy(report.choice.claim_statuses)
    /\ report.results.count_claims # WithStatuses(List({})).count_claims
    /\ report.results.top_receivers = WithStatuses(List({})).top_receivers
    /\ report.results.top_receivers
         # top_receivers(report.filters.cities, report.filters.claim_statuses).rows

\* ========================================================================
\* Concurrent sessions: creates of Providers, Receivers and Claims, each in
\* two steps, the next_id read and the INSERT with its commit
\* ========================================================================
Entities == {"providers", "receivers", "claims"}

CreateOp(entity) ==
    IF entity = "providers" THEN "ProvidersAdd"
    ELSE IF entity = "receivers" THEN "ReceiversAdd" ELSE "ClaimsAdd"

\* What session s submits: forms that pass the client-side checks and differ
\* from one session to the next.
SessionRow(s, entity) ==
    IF entity = "providers"
    THEN ProviderRow([Name |-> <<"a">>,
                      Type |-> IF s = 1 THEN "Restaurant" ELSE "Grocery Store",
                      Address |-> <<"x">>, City |-> <<"d">>, Contact |-> <<"c">>])
    ELSE IF entity = "receivers"
    THEN ReceiverRow([Name |-> <<"r">>, Type |-> IF s = 1 THEN "NGO" ELSE "Shelter",
                      City |-> <<"d">>, Contact |-> <<"c">>])
    ELSE [Food_ID |-> 1, Receiver_ID |-> 1,
          Status |-> IF s = 1 THEN "Pending" ELSE "Completed", Timestamp |-> 1]

\* The submission passes the client-side checks and load_table returns the
\* next id: through the cache of this process, or, for a session served by
\* another process whose cache has no entry, from the store.
SessionRead(s, entity, own_process) ==
    LET t == Tables[entity]
        next_id == IF own_process THEN NextIdQuery(t) ELSE LoadNextId(entity, t)
    IN  /\ sessions[s].pc = "idle"
        /\ entity = "claims" => FoodIdKnown(1) /\ ReceiverIdKnown(1)
        /\ next_id <= MaxId
        /\ sessions' = [sessions EXCEPT ![s] =
                           [pc |-> "read", entity |-> entity, next_id |-> next_id,
                            loaded |-> own_process \/ next_id_cache[entity] = 0]]
        /\ next_id_cache' = IF own_process THEN next_id_cache ELSE Memoized(entity, t)
        /\ UNCHANGED <<store, providers_df, receivers_df, food_df, claims_df,
                       db_error, result, steps, report, conn_log>>

\* cur.execute(INSERT ..., (next_id, ...)); conn.commit() or the rollback of
\* the except branch.
SessionInsert(s) ==
    LET entity == sessions[s].entity
        next_id == sessions[s].next_id
        r == IF entity = "claims"
             THEN InsertClaim(next_id, SessionRow(s, entity))
             ELSE InsertKeyed(entity, next_id, SessionRow(s, entity))
    IN  /\ sessions[s].pc = "read"
        /\ Executed(CreateOp(entity), 0, next_id, r, sessions[s].loaded)
        /\ sessions' = [sessions EXCEPT
                           ![s].pc = IF r.err = "" THEN "committed" ELSE "store_error"]
        /\ UNCHANGED <<cache, steps>>

NextC ==
    \/ \E s \in Sessions, entity \in Entities, own_process \in BOOLEAN :
          SessionRead(s, entity, own_process)
    \/ \E s \in Sessions : SessionInsert(s)

SpecC == Init /\ [][NextC]_vars

\* The sessions that computed the key of session s for the same entity.
SameKey(s) ==
    {u \in Sessions : /\ sessions[u].pc # "idle"
                      /\ sessions[u].entity = sessions[s].entity
                      /\ sessions[u].next_id = sessions[s].next_id}

Finished(s) == sessions[s].pc \in {"committed", "store_error"}

\* Of the sessions that computed one key at most one has committed its row,
\* and once all of them have finished every other one ended in a store error.
OneRowPerKey ==
    \A s \in Sessions :
        sessions[s].pc # "idle" =>
            LET committed == {u \in SameKey(s) : sessions[u].pc = "committed"}
                failed == {u \in SameKey(s) : sessions[u].pc = "store_error"}
            IN  /\ Cardinality(committed) <= 1
                /\ (\A u \in SameKey(s) : Finished(u)) =>
                       Cardinality(failed) >= Cardinality(SameKey(s)) - 1

\* No step changes or removes a row the store holds.
RowsKept ==
    /\ \A i \in Keys(providers) : i \in Keys(providers') /\ providers'[i] = providers[i]
    /\ \A i \in Keys(receivers) : i \in Keys(receivers') /\ receivers'[i] = receivers[i]
    /\ \A i \in Keys(claims) : i \in Keys(claims') /\ claims'[i] = claims[i]

\* C22: when sessions interleave creates of one entity (each reads max+1,
\* then inserts) and compute the same new id, at most one of the inserts
\* commits and the others end in a store error: the store never holds two
\* rows of one entity under one primary key, and no insert changes a row
\* that was committed before it.
C22_OneInsertPerKeyCommits == [][RowsKept /\ OneRowPerKey']_vars

\* Two sessions computed the same id for the same entity; one committed its
\* row, the other got the duplicate-key error and the row is the first one's.
C22_Witness ==
    \E s \in Sessions, u \in Sessions :
        /\ s # u
        /\ u \in SameKey(s)
        /\ sessions[s].pc = "committed"
        /\ sessions[u].pc = "store_error"
        /\ result.kind = "store_error" /\ result.msg = DupEntry
        /\ Tables[sessions[s].entity][sessions[s].next_id]
             = SessionRow(s, sessions[s].entity)
====
